---- MODULE Spec2Model ----
(***************************************************************************)
(* Model of Esri-Font-Catalog-Maker.py: the font directory scan (Font      *)
(* Locator), the per-font page loop (Page Composer) and the two grid       *)
(* functions.  Strings are sequences of character codes, so that lower(),  *)
(* splitext(), replace() and the format specs are computed, not assumed.   *)
(***************************************************************************)
EXTENDS Integers, Sequences, FiniteSets, TLC

VARIABLES
    fs,            \* the filesystem: font dir index -> [exists, walk]
    pc,            \* position of the script
    dir_i,         \* index into arcgis_font_dirs of the directory being scanned
    file_i,        \* 0 before the walk of that directory starts, else index in the walk
    fonts_found,   \* line 87/91
    font_dict,     \* line 78: derived name -> path
    fonts,         \* line 105: sorted(font_dict.keys())
    total_fonts,   \* line 106
    canvas_open,   \* line 119: canvas.Canvas(output_pdf) was constructed
    registry,      \* pdfmetrics' registered fonts: font_id -> path it was registered from
    font_idx,      \* 1-based position in fonts of the font being processed
    page_count,    \* line 262
    doc,           \* the calls made on the canvas, in order
    errors,        \* the fonts whose "ERROR processing" line was printed (line 302)
    save_count,    \* number of c.save() calls (line 306)
    exit_code,     \* -1 while running, else the process exit code
    g_pc,          \* grid harness: "call" or "returned"
    g_kind,        \* grid harness: "basic" (draw_character_grid) or "extended"
    g_start,       \* grid harness: start_code
    g_end,         \* grid harness: end_code
    g_bad,         \* grid harness: the codes whose glyph draw raises
    g_cells,       \* grid harness: the cells drawn by the call
    g_count        \* grid harness: the value returned by the call

scan_vars == <<fs, pc, dir_i, file_i, fonts_found, font_dict, fonts, total_fonts>>
loop_vars == <<canvas_open, registry, font_idx, page_count, doc, errors, save_count, exit_code>>
grid_vars == <<g_pc, g_kind, g_start, g_end, g_bad, g_cells, g_count>>
scan_vars_but_pc == <<fs, dir_i, file_i, fonts_found, font_dict, fonts, total_fonts>>
vars == <<scan_vars, loop_vars, grid_vars>>

----------------------------------------------------------------------------
(* Bounds of the model *)

\* most files in the whole filesystem, full program runs
MaxFiles == 2
\* most files in the whole filesystem, locator-only runs
MaxScanFiles == 3
\* a grid call that raises does so in one of its first MaxFailCell cells
MaxFailCell == 10

----------------------------------------------------------------------------
(* Strings *)

Min(a, b) == IF a < b THEN a ELSE b

\* str.lower() on ASCII text
Lower(s) == [i \in DOMAIN s |-> IF s[i] >= 65 /\ s[i] <= 90 THEN s[i] + 32 ELSE s[i]]

\* str.endswith(suffix)
EndsWith(s, suf) ==
    /\ Len(s) >= Len(suf)
    /\ SubSeq(s, Len(s) - Len(suf) + 1, Len(s)) = suf

\* ".ttf" and ".otf"
DotTtf == <<46, 116, 116, 102>>
DotOtf == <<46, 111, 116, 102>>

\* line 94: file.lower().endswith(('.ttf', '.otf'))
IsFontFile(file) == EndsWith(Lower(file), DotTtf) \/ EndsWith(Lower(file), DotOtf)

\* os.path.splitext(file)[0] for a bare filename: cut at the last dot, unless
\* only dots precede it
SplitextRoot(file) ==
    LET dots == {i \in DOMAIN file : file[i] = 46}
    IN  IF dots = {} THEN file
        ELSE LET dotIndex == CHOOSE i \in dots : \A j \in dots : j <= i
             IN  IF \E k \in 1..(dotIndex - 1) : file[k] # 46
                 THEN SubSeq(file, 1, dotIndex - 1)
                 ELSE file

\* line 268: font_name.replace(" ", "_").replace("-", "_").replace(".", "_")
FontId(name) == [i \in DOMAIN name |-> IF name[i] \in {32, 45, 46} THEN 95 ELSE name[i]]

\* str < str: lexicographic by code point
StrLess(a, b) ==
    \E k \in 1..(Min(Len(a), Len(b)) + 1) :
        /\ \A j \in 1..(k - 1) : a[j] = b[j]
        /\ \/ k = Len(a) + 1 /\ k <= Len(b)
           \/ k <= Len(a) /\ k <= Len(b) /\ a[k] < b[k]

\* sorted(S) for a set of strings
RECURSIVE SortedSeq(_)
SortedSeq(S) ==
    IF S = {} THEN <<>>
    ELSE LET m == CHOOSE x \in S : \A y \in S \ {x} : StrLess(x, y)
         IN  <<m>> \o SortedSeq(S \ {m})

----------------------------------------------------------------------------
(* Font Locator, lines 78-111 *)

\* line 81-85: arcgis_font_dirs has three entries
FontDirs == 1..3

\* filenames that the directories may hold
FooTtf == <<70, 111, 111, 46, 116, 116, 102>>       \* "Foo.ttf"
FooOtf == <<70, 111, 111, 46, 111, 116, 102>>       \* "Foo.otf"
ASpaceB == <<65, 32, 66, 46, 84, 84, 70>>           \* "A B.TTF"
ADashB == <<65, 45, 66, 46, 116, 116, 102>>         \* "A-B.ttf"
FooTxt == <<70, 111, 111, 46, 116, 120, 116>>       \* "Foo.txt"
FilePool == {FooTtf, FooOtf, ASpaceB, ADashB, FooTxt}

\* a walk entry <<d, sub, file>>: file found in root d (sub = 0) or in a
\* subdirectory of d (sub = 1); os.path.join(root, file) is the entry itself
Entries(d, subs) == {<<d, sub, f>> : sub \in subs, f \in FilePool}

WalksOfLen(d, subs, n) ==
    {w \in [1..n -> Entries(d, subs)] : \A i, j \in 1..n : i # j => w[i] # w[j]}

\* a directory of the filesystem: os.path.exists(font_dir) and its os.walk listing
Dir(exists, walk) == [exists |-> exists, walk |-> walk]

\* all filesystems holding at most max files under the three font directories,
\* in the roots named by subs
InitFs(max, subs) ==
    \E n1 \in 0..max : \E n2 \in 0..(max - n1) : \E n3 \in 0..(max - n1 - n2) :
      \E w1 \in WalksOfLen(1, subs, n1) : \E w2 \in WalksOfLen(2, subs, n2) :
        \E w3 \in WalksOfLen(3, subs, n3) :
        \E gone \in SUBSET {d \in FontDirs : <<n1, n2, n3>>[d] = 0} :
            fs = [d \in FontDirs |-> Dir(d \notin gone, <<w1, w2, w3>>[d])]

InitRest ==
    /\ pc = "scan"
    /\ dir_i = 1
    /\ file_i = 0
    /\ fonts_found = FALSE
    /\ font_dict = <<>>
    /\ fonts = <<>>
    /\ total_fonts = 0
    /\ canvas_open = FALSE
    /\ registry = <<>>
    /\ font_idx = 0
    /\ page_count = 0
    /\ doc = <<>>
    /\ errors = <<>>
    /\ save_count = 0
    /\ exit_code = -1
    /\ g_pc = "idle"
    /\ g_kind = "basic"
    /\ g_start = 0
    /\ g_end = 0
    /\ g_bad = {}
    /\ g_cells = <<>>
    /\ g_count = 0

\* faulty variant of line 97-98, the membership test dropped: the last file of a name wins
AddFontLastWins(d, name, path) ==
    [n \in DOMAIN d \cup {name} |-> IF n = name THEN path ELSE d[n]]

\* line 97-98: if font_name not in font_dict: font_dict[font_name] = font_path
AddFont(d, name, path) ==
    IF name \in DOMAIN d THEN d
    ELSE [n \in DOMAIN d \cup {name} |-> IF n = name THEN path ELSE d[n]]

\* line 88-89: the directory does not exist, the loop goes to the next one
ScanDirMissing ==
    /\ pc = "scan" /\ dir_i \in FontDirs /\ ~fs[dir_i].exists
    /\ dir_i' = dir_i + 1
    /\ UNCHANGED <<fs, pc, file_i, fonts_found, font_dict, fonts, total_fonts>>
    /\ UNCHANGED <<loop_vars, grid_vars>>

\* line 89-92: the directory exists, the walk starts
ScanDirFound ==
    /\ pc = "scan" /\ dir_i \in FontDirs /\ fs[dir_i].exists /\ file_i = 0
    /\ fonts_found' = TRUE
    /\ file_i' = 1
    /\ UNCHANGED <<fs, pc, dir_i, font_dict, fonts, total_fonts>>
    /\ UNCHANGED <<loop_vars, grid_vars>>

\* line 93-99: one file of the walk
ScanFile ==
    /\ pc = "scan" /\ dir_i \in FontDirs /\ fs[dir_i].exists
    /\ file_i >= 1 /\ file_i <= Len(fs[dir_i].walk)
    /\ LET entry == fs[dir_i].walk[file_i]
           file == entry[3]
       IN  font_dict' = IF IsFontFile(file)
                        THEN AddFont(font_dict, SplitextRoot(file), entry)
                        ELSE font_dict
    /\ file_i' = file_i + 1
    /\ UNCHANGED <<fs, pc, dir_i, fonts_found, fonts, total_fonts>>
    /\ UNCHANGED <<loop_vars, grid_vars>>

\* line 92: the walk of the directory is exhausted
ScanDirDone ==
    /\ pc = "scan" /\ dir_i \in FontDirs /\ fs[dir_i].exists
    /\ file_i > Len(fs[dir_i].walk)
    /\ dir_i' = dir_i + 1
    /\ file_i' = 0
    /\ UNCHANGED <<fs, pc, fonts_found, font_dict, fonts, total_fonts>>
    /\ UNCHANGED <<loop_vars, grid_vars>>

\* line 105-107
SortFonts ==
    /\ pc = "scan" /\ dir_i \notin FontDirs
    /\ fonts' = SortedSeq(DOMAIN font_dict)
    /\ total_fonts' = Cardinality(DOMAIN font_dict)
    /\ pc' = "check"
    /\ UNCHANGED <<fs, dir_i, file_i, fonts_found, font_dict>>
    /\ UNCHANGED <<loop_vars, grid_vars>>

ScanNext == ScanDirMissing \/ ScanDirFound \/ ScanFile \/ ScanDirDone \/ SortFonts

InitScan == InitFs(MaxScanFiles, {0, 1}) /\ InitRest

SpecScan == InitScan /\ [][ScanNext]_vars

----------------------------------------------------------------------------
(* Grid functions, lines 125-259 *)

cols == 16
rows == 14

\* str(n) for n >= 0
RECURSIVE DecStr(_)
DecStr(n) == IF n < 10 THEN <<48 + n>> ELSE DecStr(n \div 10) \o <<48 + (n % 10)>>

\* one digit of format(n, "X"): 0-9, A-F
HexDigit(d) == IF d < 10 THEN 48 + d ELSE 55 + d

\* format(n, "X") for n >= 0
RECURSIVE HexStr(_)
HexStr(n) == IF n < 16 THEN <<HexDigit(n)>> ELSE HexStr(n \div 16) \o <<HexDigit(n % 16)>>

\* the zero fill of a format spec "0<w>X": pads to at least w characters
RECURSIVE ZeroPad(_, _)
ZeroPad(s, w) == IF Len(s) >= w THEN s ELSE ZeroPad(<<48>> \o s, w)

\* f"U+{code:04X}"
UPlus(code) == <<85, 43>> \o ZeroPad(HexStr(code), 4)

\* line 198: f"x{code:02X}"
HexLine(code) == <<120>> \o ZeroPad(HexStr(code), 2)

\* line 197, 244: f"{code}"
DecLine(code) == DecStr(code)

\* line 153-159: every key but 32 and 127 maps to its own character
special_chars ==
    [c \in (32..47) \cup (58..64) \cup (91..96) \cup (123..127) |->
        IF c = 32 THEN <<83, 112, 97, 99, 101>>          \* "Space"
        ELSE IF c = 127 THEN <<68, 69, 76>>              \* "DEL"
        ELSE <<c>>]

\* faulty variant of line 190-191: labels of 6 characters are cut too
TruncateShort(label) ==
    IF Len(label) > 5 THEN SubSeq(label, 1, 5) \o <<46>> ELSE label

\* line 190-191: if len(key_label) > 6: key_label = key_label[:5] + "."
Truncate(label) ==
    IF Len(label) > 6 THEN SubSeq(label, 1, 5) \o <<46>> ELSE label

\* line 176-191: the key label of draw_character_grid
KeyLabel(code) ==
    Truncate(
        IF code \in DOMAIN special_chars THEN special_chars[code]
        ELSE IF 48 <= code /\ code <= 57 THEN <<code>>
        ELSE IF 65 <= code /\ code <= 90 THEN <<code>>
        ELSE IF 97 <= code /\ code <= 122 THEN <<code>>
        ELSE IF code < 127 THEN <<code>> ELSE UPlus(code))

\* faulty variant of line 161, 223: the end code is not taken into the bound
GridStopIgnoringEnd(start_code, end_code) == start_code + (rows * cols)

\* line 161, 223: the end of range(start_code, min(end_code + 1, start_code + rows * cols))
GridStop(start_code, end_code) == Min(end_code + 1, start_code + (rows * cols))

\* line 200-211: what the cell shows: the glyph, or the dash drawn by the except branch
CellGlyph(code, bad) == IF code \in bad THEN "placeholder" ELSE "glyph"

\* faulty variant of line 201-206: char_count += 1 placed before the glyph draw
CountedAlways(cell) == TRUE

\* line 201-211: char_count += 1 is reached only when the glyph draw did not raise
Counted(cell) == cell.glyph = "glyph"

\* one cell of draw_character_grid, line 162-211
BasicCell(code, start_code, bad) ==
    [code |-> code,
     row |-> (code - start_code) \div cols,
     col |-> (code - start_code) % cols,
     label |-> KeyLabel(code),
     dec |-> DecLine(code),
     hex |-> HexLine(code),
     glyph |-> CellGlyph(code, bad)]

\* one cell of draw_extended_grid, line 224-255: no hex line
ExtendedCell(code, start_code, bad) ==
    [code |-> code,
     row |-> (code - start_code) \div cols,
     col |-> (code - start_code) % cols,
     label |-> UPlus(code),
     dec |-> DecLine(code),
     hex |-> <<>>,
     glyph |-> CellGlyph(code, bad)]

\* the for loop of either grid function, line 161-215 and 223-259: the codes
\* of range(start_code, stop) up to the first one whose row is >= rows (the
\* break), one cell for each, and the char_count returned
GridLoop(kind, stop, start_code, bad) ==
    LET over == {c \in start_code..(stop - 1) : (c - start_code) \div cols >= rows}
        cut == IF over = {} THEN stop ELSE CHOOSE c \in over : \A d \in over : c <= d
        cells == [i \in 1..(cut - start_code) |->
                    IF kind = "basic" THEN BasicCell(start_code + i - 1, start_code, bad)
                    ELSE ExtendedCell(start_code + i - 1, start_code, bad)]
    IN  [cells |-> cells,
         char_count |-> Cardinality({i \in DOMAIN cells : Counted(cells[i])})]

\* line 144-215; the result is the cells drawn and the returned char_count
draw_character_grid(start_code, end_code, bad) ==
    GridLoop("basic", GridStop(start_code, end_code), start_code, bad)

\* line 217-259
draw_extended_grid(start_code, end_code, bad) ==
    GridLoop("extended", GridStop(start_code, end_code), start_code, bad)

\* the ranges and glyph failures the grid functions are exercised on
StartPool == {0, 32, 250, 256}
EndPool == {0, 31, 47, 255, 479, 480, 511, 512}
BadPool == {32, 65, 255, 256, 479}

InitGrid ==
    /\ fs = [d \in FontDirs |-> Dir(FALSE, <<>>)]
    /\ pc = "grid"
    /\ dir_i = 1
    /\ file_i = 0
    /\ fonts_found = FALSE
    /\ font_dict = <<>>
    /\ fonts = <<>>
    /\ total_fonts = 0
    /\ canvas_open = TRUE
    /\ registry = <<>>
    /\ font_idx = 0
    /\ page_count = 0
    /\ doc = <<>>
    /\ errors = <<>>
    /\ save_count = 0
    /\ exit_code = -1
    /\ g_pc = "call"
    /\ g_kind \in {"basic", "extended"}
    /\ g_start \in StartPool
    /\ g_end \in EndPool
    /\ g_bad \in SUBSET BadPool
    /\ g_cells = <<>>
    /\ g_count = 0

\* a call of draw_character_grid(c, font_id, font_name, g_start, g_end)
CallCharacterGrid ==
    /\ g_pc = "call" /\ g_kind = "basic"
    /\ LET r == draw_character_grid(g_start, g_end, g_bad)
       IN  g_cells' = r.cells /\ g_count' = r.char_count
    /\ g_pc' = "returned"
    /\ UNCHANGED <<g_kind, g_start, g_end, g_bad, scan_vars, loop_vars>>

\* a call of draw_extended_grid(c, font_id, font_name, g_start, g_end)
CallExtendedGrid ==
    /\ g_pc = "call" /\ g_kind = "extended"
    /\ LET r == draw_extended_grid(g_start, g_end, g_bad)
       IN  g_cells' = r.cells /\ g_count' = r.char_count
    /\ g_pc' = "returned"
    /\ UNCHANGED <<g_kind, g_start, g_end, g_bad, scan_vars, loop_vars>>

GridNext == CallCharacterGrid \/ CallExtendedGrid

SpecGrid == InitGrid /\ [][GridNext]_vars

----------------------------------------------------------------------------
(* Zero-font check and canvas creation, lines 109-119 *)

\* faulty variant of line 109: the zero-font check never fires
NoFontsNever(n) == FALSE

\* line 109: if total_fonts == 0
NoFonts(n) == n = 0

\* line 109-111: sys.exit(1) before the canvas is created
ExitNoFonts ==
    /\ pc = "check" /\ NoFonts(total_fonts)
    /\ pc' = "exited"
    /\ exit_code' = 1
    /\ UNCHANGED <<fs, dir_i, file_i, fonts_found, font_dict, fonts, total_fonts>>
    /\ UNCHANGED <<canvas_open, registry, font_idx, page_count, doc, errors, save_count>>
    /\ UNCHANGED grid_vars

\* line 113-126 and 262: the canvas is created, page_count = 0, the loop starts
OpenCanvas ==
    /\ pc = "check" /\ ~NoFonts(total_fonts)
    /\ canvas_open' = TRUE
    /\ page_count' = 0
    /\ font_idx' = 1
    /\ pc' = "register"
    /\ UNCHANGED <<fs, dir_i, file_i, fonts_found, font_dict, fonts, total_fonts>>
    /\ UNCHANGED <<registry, doc, errors, save_count, exit_code>>
    /\ UNCHANGED grid_vars

----------------------------------------------------------------------------
(* Per-font loop, lines 262-306.  Every call into the drawing backend made  *)
(* inside the try block may raise: registration, c.showPage(), each of the  *)
(* four primitives of the header, the legend, and the primitives of a grid  *)
(* cell that lie outside the per-cell try.  What was drawn before the raise *)
(* stays in the document.                                                   *)

\* the calls recorded in doc.  Of a header the number of its primitives that
\* were drawn is kept (title, page of total, timestamp, rule: 4 when whole); of a
\* grid call the font resource selected by setFont(font_id), the number of
\* cells completed and whether the call returned (the loop discards the
\* returned char_count)
ShowPageOp == [op |-> "showPage"]
HeaderOp(name, page_num, total_pages, drawn) ==
    [op |-> "header", font |-> name, page |-> page_num, total |-> total_pages,
     drawn |-> drawn]
LegendOp(name, kind) == [op |-> "legend", font |-> name, kind |-> kind]
GridOp(name, kind, resource, cells, returned) ==
    [op |-> "grid", font |-> name, kind |-> kind, res |-> resource,
     cells |-> cells, returned |-> returned]

\* the glyph failures a font may show on a page of the full program
PageBadPool == {{}, {65, 300}}

\* faulty variant of line 280, 293: the font count passed as the total
TotalPagesUndoubled(n) == n

\* line 280, 293: total_fonts * 2
TotalPages(n) == n * 2

\* faulty variant of line 303: the error ends the run instead of the iteration
AfterErrorAbort == "exited"

\* line 303: continue, the loop goes on with the next font
AfterError == "register"

font_name == fonts[font_idx]
font_path == font_dict[font_name]
font_id == FontId(font_name)

InLoop(at) == pc = at /\ font_idx >= 1 /\ font_idx <= Len(fonts)

\* line 301-303: except Exception: print the error, continue
HandleError ==
    /\ errors' = Append(errors, font_name)
    /\ font_idx' = font_idx + 1
    /\ pc' = AfterError

\* line 268-273: the font is registered unless its id already is
RegisterFont ==
    /\ InLoop("register")
    /\ registry' = IF font_id \in DOMAIN registry THEN registry
                   ELSE [i \in DOMAIN registry \cup {font_id} |->
                            IF i = font_id THEN font_path ELSE registry[i]]
    /\ pc' = "page1"
    /\ UNCHANGED <<canvas_open, font_idx, page_count, doc, errors, save_count, exit_code>>
    /\ UNCHANGED <<scan_vars_but_pc, grid_vars>>

\* line 271: TTFont(font_id, font_path) or registerFont raises
RegisterFails ==
    /\ InLoop("register")
    /\ font_id \notin DOMAIN registry
    /\ HandleError
    /\ UNCHANGED <<canvas_open, registry, page_count, doc, save_count, exit_code>>
    /\ UNCHANGED <<scan_vars_but_pc, grid_vars>>

\* line 276-278: page_count += 1; if page_count > 1: c.showPage()
BeginFirstPage ==
    /\ InLoop("page1")
    /\ page_count' = page_count + 1
    /\ doc' = IF page_count' > 1 THEN Append(doc, ShowPageOp) ELSE doc
    /\ pc' = "header1"
    /\ UNCHANGED <<canvas_open, registry, font_idx, errors, save_count, exit_code>>
    /\ UNCHANGED <<scan_vars_but_pc, grid_vars>>

\* line 290-291: page_count += 1; c.showPage()
BeginSecondPage ==
    /\ InLoop("page2")
    /\ page_count' = page_count + 1
    /\ doc' = Append(doc, ShowPageOp)
    /\ pc' = "header2"
    /\ UNCHANGED <<canvas_open, registry, font_idx, errors, save_count, exit_code>>
    /\ UNCHANGED <<scan_vars_but_pc, grid_vars>>

\* line 280, 293: draw_page_header(c, font_name, page_count, total_fonts * 2)
DrawHeader ==
    /\ InLoop("header1") \/ InLoop("header2")
    /\ doc' = Append(doc, HeaderOp(font_name, page_count, TotalPages(total_fonts), 4))
    /\ pc' = IF pc = "header1" THEN "legend1" ELSE "legend2"
    /\ UNCHANGED <<canvas_open, registry, font_idx, page_count, errors, save_count, exit_code>>
    /\ UNCHANGED <<scan_vars_but_pc, grid_vars>>

\* line 283-285, 295-297: the legend line
DrawLegend ==
    /\ InLoop("legend1") \/ InLoop("legend2")
    /\ doc' = Append(doc, LegendOp(font_name, IF pc = "legend1" THEN "basic" ELSE "extended"))
    /\ pc' = IF pc = "legend1" THEN "grid1" ELSE "grid2"
    /\ UNCHANGED <<canvas_open, registry, font_idx, page_count, errors, save_count, exit_code>>
    /\ UNCHANGED <<scan_vars_but_pc, grid_vars>>

\* line 287: draw_character_grid(c, font_id, font_name, 32, 255); setFont(font_id)
\* selects the resource registered under font_id
DrawBasicGrid ==
    /\ InLoop("grid1")
    /\ \E bad \in PageBadPool :
          doc' = Append(doc, GridOp(font_name, "basic", registry[font_id],
                                    Len(draw_character_grid(32, 255, bad).cells), TRUE))
    /\ pc' = "page2"
    /\ UNCHANGED <<canvas_open, registry, font_idx, page_count, errors, save_count, exit_code>>
    /\ UNCHANGED <<scan_vars_but_pc, grid_vars>>

\* line 299: draw_extended_grid(c, font_id, font_name, 256, 511), the last
\* statement of the loop body
DrawExtendedGrid ==
    /\ InLoop("grid2")
    /\ \E bad \in PageBadPool :
          doc' = Append(doc, GridOp(font_name, "extended", registry[font_id],
                                    Len(draw_extended_grid(256, 511, bad).cells), TRUE))
    /\ font_idx' = font_idx + 1
    /\ pc' = "register"
    /\ UNCHANGED <<canvas_open, registry, page_count, errors, save_count, exit_code>>
    /\ UNCHANGED <<scan_vars_but_pc, grid_vars>>

\* line 278, 291: c.showPage() raises; page_count was already incremented and
\* no page break is made
ShowPageFails ==
    /\ (InLoop("page1") /\ page_count + 1 > 1) \/ InLoop("page2")
    /\ page_count' = page_count + 1
    /\ HandleError
    /\ UNCHANGED <<canvas_open, registry, doc, save_count, exit_code>>
    /\ UNCHANGED <<scan_vars_but_pc, grid_vars>>

\* line 128-142 called from line 280, 293: one of the four primitives of
\* draw_page_header raises; those drawn before it stay on the page
HeaderFails ==
    /\ InLoop("header1") \/ InLoop("header2")
    /\ \E drawn \in 0..3 :
          doc' = IF drawn = 0 THEN doc
                 ELSE Append(doc, HeaderOp(font_name, page_count,
                                           TotalPages(total_fonts), drawn))
    /\ HandleError
    /\ UNCHANGED <<canvas_open, registry, page_count, save_count, exit_code>>
    /\ UNCHANGED <<scan_vars_but_pc, grid_vars>>

\* line 283-285, 295-297: the legend's drawString raises
LegendFails ==
    /\ InLoop("legend1") \/ InLoop("legend2")
    /\ HandleError
    /\ UNCHANGED <<canvas_open, registry, page_count, doc, save_count, exit_code>>
    /\ UNCHANGED <<scan_vars_but_pc, grid_vars>>

\* line 161-213, 223-257 called from line 287, 299: a primitive of cell number
\* `cell` outside the per-cell try raises (the border, a text line, the
\* placeholder); the cells completed before it stay on the page
GridFails ==
    /\ InLoop("grid1") \/ InLoop("grid2")
    /\ \E bad \in PageBadPool :
        LET r == IF pc = "grid1" THEN draw_character_grid(32, 255, bad)
                 ELSE draw_extended_grid(256, 511, bad)
        IN  \E cell \in 1..Min(MaxFailCell, Len(r.cells)) :
              doc' = IF cell = 1 THEN doc
                     ELSE Append(doc, GridOp(font_name,
                                             IF pc = "grid1" THEN "basic" ELSE "extended",
                                             registry[font_id], cell - 1, FALSE))
    /\ HandleError
    /\ UNCHANGED <<canvas_open, registry, page_count, save_count, exit_code>>
    /\ UNCHANGED <<scan_vars_but_pc, grid_vars>>

\* line 306-319: the loop is over: c.save(), the summary, exit code 0
Save ==
    /\ pc = "register" /\ font_idx > Len(fonts)
    /\ save_count' = save_count + 1
    /\ pc' = "done"
    /\ exit_code' = 0
    /\ UNCHANGED <<canvas_open, registry, font_idx, page_count, doc, errors>>
    /\ UNCHANGED <<scan_vars_but_pc, grid_vars>>

Init == InitFs(MaxFiles, {0}) /\ InitRest

Next ==
    \/ ScanDirMissing \/ ScanDirFound \/ ScanFile \/ ScanDirDone \/ SortFonts
    \/ ExitNoFonts \/ OpenCanvas
    \/ RegisterFont \/ RegisterFails
    \/ BeginFirstPage \/ DrawHeader \/ DrawLegend \/ DrawBasicGrid
    \/ BeginSecondPage \/ DrawExtendedGrid
    \/ ShowPageFails \/ HeaderFails \/ LegendFails \/ GridFails
    \/ Save

Spec == Init /\ [][Next]_vars

----------------------------------------------------------------------------
(* Properties of the grid functions, checked under SpecGrid *)

\* readers of the text lines, written independently of the formatters
IsDigits(s) == \A i \in DOMAIN s : s[i] >= 48 /\ s[i] <= 57
IsUpperHex(s) == \A i \in DOMAIN s : (s[i] >= 48 /\ s[i] <= 57) \/ (s[i] >= 65 /\ s[i] <= 70)
HexVal(ch) == IF ch <= 57 THEN ch - 48 ELSE ch - 55
RECURSIVE ParseHex(_)
ParseHex(s) ==
    IF s = <<>> THEN 0 ELSE 16 * ParseHex(SubSeq(s, 1, Len(s) - 1)) + HexVal(s[Len(s)])
RECURSIVE ParseDec(_)
ParseDec(s) ==
    IF s = <<>> THEN 0 ELSE 10 * ParseDec(SubSeq(s, 1, Len(s) - 1)) + (s[Len(s)] - 48)

\* the number of codes in start .. min(end, start + 223)
RunLength(start, end) ==
    LET last == Min(end, start + 223) IN IF last < start THEN 0 ELSE last - start + 1

\* C2: a call of either grid function renders at most 224 cells, for exactly the
\* contiguous codes start .. min(end, start + 223), each at row (code - start) div 16
\* in 0..13 and column (code - start) mod 16 in 0..15; the range 32..255 fills all
\* 224 cells and the range 256..511 renders 256..479 only.
C2_PageCap ==
    g_pc = "returned" =>
        /\ Len(g_cells) <= 224
        /\ Len(g_cells) = RunLength(g_start, g_end)
        /\ \A i \in DOMAIN g_cells :
            /\ g_cells[i].code = g_start + i - 1
            /\ g_cells[i].code <= g_end
            /\ g_cells[i].row = (g_cells[i].code - g_start) \div 16
            /\ g_cells[i].col = (g_cells[i].code - g_start) % 16
            /\ g_cells[i].row \in 0..13
            /\ g_cells[i].col \in 0..15
        /\ (g_start = 32 /\ g_end = 255) => Len(g_cells) = 224
        /\ (g_start = 256 /\ g_end = 511) =>
              Len(g_cells) = 224 /\ g_cells[Len(g_cells)].code = 479

\* the extended page as the program requests it, clipped at code 479
C2_Witness ==
    /\ g_pc = "returned" /\ g_kind = "extended" /\ g_start = 256 /\ g_end = 511
    /\ Len(g_cells) = 224
    /\ g_cells[224].code = 479 /\ g_cells[224].row = 13 /\ g_cells[224].col = 15

Punctuation == (33..47) \cup (58..64) \cup (91..96) \cup (123..126)
AlphaNum == (48..57) \cup (65..90) \cup (97..122)

\* C7: in draw_character_grid, for every code in 32..255: the label is the table
\* name for table codes (32 "Space", 127 "DEL", punctuation itself), the character
\* itself for digits and letters, "U+" and 4 uppercase hex digits otherwise (all
\* such codes are >= 128; 200 gives "U+00C8"); truncation changes none of them;
\* the decimal line is the decimal text of the code and the hex line is "x" and
\* exactly 2 uppercase hex digits (65 gives "65" and "x41").
C7_BasicLabels ==
    (g_pc = "returned" /\ g_kind = "basic") =>
        \A i \in DOMAIN g_cells :
            LET cell == g_cells[i]
                code == cell.code
            IN  (code >= 32 /\ code <= 255) =>
                /\ code = 32 => cell.label = <<83, 112, 97, 99, 101>>
                /\ code = 127 => cell.label = <<68, 69, 76>>
                /\ code \in Punctuation \cup AlphaNum => cell.label = <<code>>
                /\ code >= 128 =>
                      /\ Len(cell.label) = 6
                      /\ SubSeq(cell.label, 1, 2) = <<85, 43>>
                      /\ IsUpperHex(SubSeq(cell.label, 3, 6))
                      /\ ParseHex(SubSeq(cell.label, 3, 6)) = code
                /\ code = 200 => cell.label = <<85, 43, 48, 48, 67, 56>>
                /\ Len(cell.dec) >= 1 /\ IsDigits(cell.dec)
                /\ cell.dec[1] # 48 /\ ParseDec(cell.dec) = code
                /\ Len(cell.hex) = 3 /\ cell.hex[1] = 120
                /\ IsUpperHex(SubSeq(cell.hex, 2, 3))
                /\ ParseHex(SubSeq(cell.hex, 2, 3)) = code
                /\ code = 65 => cell.dec = <<54, 53>> /\ cell.hex = <<120, 52, 49>>

\* the basic page as the program requests it, with the cells of 32, 65, 127 and 200
C7_Witness ==
    /\ g_pc = "returned" /\ g_kind = "basic" /\ g_start = 32 /\ g_end = 255
    /\ Len(g_cells) = 224
    /\ g_cells[1].code = 32 /\ g_cells[1].label = <<83, 112, 97, 99, 101>>
    /\ g_cells[34].code = 65 /\ g_cells[34].label = <<65>>
    /\ g_cells[96].code = 127 /\ g_cells[96].label = <<68, 69, 76>>
    /\ g_cells[169].code = 200 /\ g_cells[169].label = <<85, 43, 48, 48, 67, 56>>

\* C8: in either grid function a failed glyph draw puts the placeholder in that
\* cell and nothing else changes: every code of the run still gets its cell, a
\* cell holds the placeholder exactly when its glyph draw failed and the glyph
\* otherwise, and the returned count is the number of cells holding the glyph.
C8_GlyphFailureSwallowed ==
    g_pc = "returned" =>
        /\ Len(g_cells) = RunLength(g_start, g_end)
        /\ \A i \in DOMAIN g_cells :
            /\ g_cells[i].code = g_start + i - 1
            /\ g_cells[i].glyph \in {"glyph", "placeholder"}
            /\ g_cells[i].glyph = "placeholder" <=> g_cells[i].code \in g_bad
        /\ g_count = Cardinality({i \in DOMAIN g_cells : g_cells[i].glyph = "glyph"})
        /\ g_count >= 0 /\ g_count <= Len(g_cells)

\* a page on which a glyph draw failed in the first cell and in a middle cell,
\* and the cells after them were still drawn
C8_Witness ==
    /\ g_pc = "returned" /\ g_kind = "extended" /\ g_start = 256 /\ g_end = 511
    /\ g_bad = {256, 479, 65}
    /\ g_cells[1].glyph = "placeholder" /\ g_cells[2].glyph = "glyph"
    /\ g_cells[224].glyph = "placeholder"
    /\ Len(g_cells) = 224 /\ g_count = 222

----------------------------------------------------------------------------
(* Properties of the Font Locator, checked under SpecScan *)

\* the walk entries the scan has gone through so far, in the order it met them
VisitedOf(d) ==
    IF d < dir_i THEN fs[d].walk
    ELSE IF d = dir_i /\ file_i >= 1 THEN SubSeq(fs[d].walk, 1, file_i - 1)
    ELSE <<>>
Visited == VisitedOf(1) \o VisitedOf(2) \o VisitedOf(3)

\* a font file's name without its 4-character extension
Stripped(file) == SubSeq(file, 1, Len(file) - 4)
HasFontExtension(file) ==
    LET ext == SubSeq(file, Len(file) - 3, Len(file))
    IN  ext \in {<<46, 116, 116, 102>>, <<46, 84, 84, 70>>, <<46, 111, 116, 102>>, <<46, 79, 84, 70>>}

\* C1: at every point of the scan the mapping holds exactly the derived names of
\* the font files met so far, each with the path of the first file of that name
\* in visiting order (directories in list order, files in walk order); a later
\* file of the same name never replaces it.
C1_FirstFoundWins ==
    LET met == {i \in DOMAIN Visited : HasFontExtension(Visited[i][3])}
    IN  /\ DOMAIN font_dict = {Stripped(Visited[i][3]) : i \in met}
        /\ \A n \in DOMAIN font_dict :
              \E i \in met :
                  /\ Stripped(Visited[i][3]) = n
                  /\ font_dict[n] = Visited[i]
                  /\ \A j \in met : Stripped(Visited[j][3]) = n => i <= j

\* Foo.ttf then Foo.otf in the first directory and Foo.ttf again in the second:
\* the entry of "Foo" is the first directory's Foo.ttf
C1_Witness ==
    /\ pc = "check"
    /\ fs[1].walk = << <<1, 0, FooTtf>>, <<1, 0, FooOtf>> >>
    /\ fs[2].walk = << <<2, 0, FooTtf>> >>
    /\ DOMAIN font_dict = {<<70, 111, 111>>}
    /\ font_dict[<<70, 111, 111>>] = <<1, 0, FooTtf>>

----------------------------------------------------------------------------
(* Properties of the whole program, checked under Spec *)

IsHeader(o) == o.op = "header"
IsShowPage(o) == o.op = "showPage"
Headers == SelectSeq(doc, IsHeader)
PosOf(name) == CHOOSE i \in DOMAIN fonts : fonts[i] = name

\* C3: no page break precedes the first header of the document, and between two
\* successive headers there is exactly one page break, in every run, also when
\* fonts raise errors.
C3_PageBreakPolicy ==
    LET H == {i \in DOMAIN doc : IsHeader(doc[i])}
        S == {i \in DOMAIN doc : IsShowPage(doc[i])}
    IN  /\ \A h \in H : (\A g \in H : h <= g) => ~(\E b \in S : b < h)
        /\ \A h1, h2 \in H :
              (h1 < h2 /\ ~(\E g \in H : h1 < g /\ g < h2)) =>
                  Cardinality({b \in S : h1 < b /\ b < h2}) = 1

\* C4: when no font failed the loop ends with page_count = 2F and whole headers
\* for the pages 1..2F in font order, two per font; and every header whose
\* "Page x of y" line was drawn, failures or not, shows the total 2F of the
\* discovered font count.
C4_TwoPagesPerFont ==
    LET F == Cardinality(DOMAIN font_dict)
    IN  /\ \A i \in DOMAIN doc :
              (IsHeader(doc[i]) /\ doc[i].drawn >= 2) => doc[i].total = 2 * F
        /\ (pc = "done" /\ errors = <<>>) =>
              /\ page_count = 2 * F
              /\ Headers = [k \in 1..(2 * F) |->
                              [op |-> "header", font |-> fonts[(k + 1) \div 2],
                               page |-> k, total |-> 2 * F, drawn |-> 4]]

\* two fonts, none failed, four pages
C4_Witness ==
    /\ pc = "done" /\ errors = <<>> /\ Len(fonts) = 2
    /\ page_count = 4 /\ Len(Headers) = 4
    /\ Headers[3].page = 3 /\ Headers[3].font = fonts[2] /\ Headers[3].total = 4

\* C5: when the scan yields no font the program can only exit with code 1: the
\* canvas is never created, nothing is drawn and save is never called.
C5_NoFontsNoPdf ==
    (pc # "scan" /\ DOMAIN font_dict = {}) =>
        /\ pc \in {"check", "exited"}
        /\ pc = "check" => (ENABLED ExitNoFonts /\ ~ENABLED OpenCanvas)
        /\ pc = "exited" => exit_code = 1
        /\ ~canvas_open
        /\ doc = <<>>
        /\ save_count = 0

\* a directory exists and holds only a file that is no font: exit code 1
C5_Witness ==
    /\ pc = "exited" /\ exit_code = 1 /\ total_fonts = 0
    /\ fs[1].exists /\ fs[1].walk = << <<1, 0, FooTxt>> >>
    /\ ~fs[2].exists
    /\ ~canvas_open /\ save_count = 0

\* C6: a font whose processing raised leaves no header, legend or grid in the
\* document, and the fonts after it are still processed.
C6_FailedFontLeavesNothing ==
    /\ \A e \in DOMAIN errors :
          ~(\E i \in DOMAIN doc : doc[i].op # "showPage" /\ doc[i].font = errors[e])
    /\ pc = "done" =>
          \A k \in DOMAIN fonts :
              (\E e \in DOMAIN errors : errors[e] = fonts[k])
              \/ Cardinality({i \in DOMAIN doc : IsHeader(doc[i]) /\ doc[i].font = fonts[k]}) = 2

\* C9: with at least one font discovered the run cannot stop before save, save
\* is called exactly once and only when every font has been processed or
\* skipped, whatever fonts failed; the headers in the document are in font order.
C9_SavedOnceAtEnd ==
    /\ save_count <= 1
    /\ save_count = 1 <=> pc = "done"
    /\ pc = "done" => (font_idx = Len(fonts) + 1 /\ total_fonts >= 1 /\ exit_code = 0)
    /\ (total_fonts >= 1 /\ pc # "done") =>
          /\ pc \in {"check", "register", "page1", "header1", "legend1", "grid1",
                     "page2", "header2", "legend2", "grid2"}
          /\ pc = "check" => ENABLED OpenCanvas
          /\ pc \notin {"check", "register"} => (font_idx >= 1 /\ font_idx <= Len(fonts))
          /\ (pc = "register" /\ font_idx > Len(fonts)) => ENABLED Save
    /\ \A i, j \in DOMAIN Headers :
          i < j => PosOf(Headers[i].font) <= PosOf(Headers[j].font)

\* both fonts failed, the second one after part of its first page was drawn, and
\* the document was still saved
C9_Witness ==
    /\ pc = "done" /\ save_count = 1
    /\ Len(fonts) = 2 /\ errors = fonts
    /\ Len(Headers) = 1 /\ Headers[1].font = fonts[2]

\* C10: the fonts whose grids were drawn to the end have pairwise distinct
\* identifiers, and every such grid is drawn with the resource registered from
\* its own font's file.
C10_OwnResource ==
    LET G == {i \in DOMAIN doc : doc[i].op = "grid" /\ doc[i].returned}
    IN  /\ \A i, j \in G :
              doc[i].font # doc[j].font => FontId(doc[i].font) # FontId(doc[j].font)
        /\ \A i \in G : doc[i].res = font_dict[doc[i].font]
====
